---- MODULE Spec2Model ----
(***************************************************************************)
(* Model of the GitHub statistics pipeline: the handler `hello`            *)
(* (src/github_stats/handler.py), generate_stats / create_svg and the      *)
(* chart renderers (src/github_stats/generate.py, src/github_stats.py),    *)
(* and upload_to_s3 (src/github_stats/upload.py).                          *)
(*                                                                         *)
(* Strings are sequences of one-character strings, so that lower() and     *)
(* fnmatch act on characters.  Python floats are IEEE-754 doubles: a       *)
(* positive double is [m, e] with value m * 2^e and 2^52 <= m < 2^53,      *)
(* the 53-bit m kept as little-endian limbs of 15 bits; every operation    *)
(* rounds to nearest, ties to even, as the hardware does.                  *)
(***************************************************************************)
EXTENDS Integers, Sequences, FiniteSets, TLC

(***************************************************************************)
(* Multi-precision naturals: little-endian sequences of limbs in 0..B-1,   *)
(* without high zero limbs; <<>> is 0.                                     *)
(***************************************************************************)
LimbBits == 15

B == 32768

RECURSIVE Pow2(_)
Pow2(k) == IF k = 0 THEN 1 ELSE 2 * Pow2(k - 1)

RECURSIVE BNorm(_)
BNorm(a) ==
    IF a = <<>> THEN <<>>
    ELSE IF a[Len(a)] = 0 THEN BNorm(SubSeq(a, 1, Len(a) - 1))
    ELSE a

RECURSIVE BFromInt(_)
BFromInt(n) == IF n = 0 THEN <<>> ELSE <<n % B>> \o BFromInt(n \div B)

\* limb i of a, 0 beyond its length
Limb(a, i) == IF i <= Len(a) THEN a[i] ELSE 0

RECURSIVE BAddC(_, _, _, _)
BAddC(a, b, i, carry) ==
    IF i > Len(a) /\ i > Len(b)
    THEN IF carry = 0 THEN <<>> ELSE <<carry>>
    ELSE <<(Limb(a, i) + Limb(b, i) + carry) % B>>
         \o BAddC(a, b, i + 1, (Limb(a, i) + Limb(b, i) + carry) \div B)

BAdd(a, b) == BAddC(a, b, 1, 0)

RECURSIVE BMulSmallC(_, _, _, _)
BMulSmallC(a, d, i, carry) ==
    IF i > Len(a)
    THEN IF carry = 0 THEN <<>> ELSE <<carry>>
    ELSE <<(a[i] * d + carry) % B>>
         \o BMulSmallC(a, d, i + 1, (a[i] * d + carry) \div B)

BMulSmall(a, d) == IF d = 0 THEN <<>> ELSE BMulSmallC(a, d, 1, 0)

BZeros(n) == [i \in 1..n |-> 0]

BShiftLimbs(a, n) == IF a = <<>> THEN <<>> ELSE BZeros(n) \o a

RECURSIVE BMulAcc(_, _, _)
BMulAcc(a, b, i) ==
    IF i > Len(b) THEN <<>>
    ELSE BAdd(BShiftLimbs(BMulSmall(a, b[i]), i - 1), BMulAcc(a, b, i + 1))

BMul(a, b) == BMulAcc(a, b, 1)

\* quotient limbs 1..i and remainder of (rem * B^i + a[1..i]) divided by d < B
BDivSmallPut(rest, digit) == [q |-> Append(rest.q, digit), r |-> rest.r]

RECURSIVE BDivSmallR(_, _, _, _)
BDivSmallR(a, d, i, rem) ==
    IF i = 0 THEN [q |-> <<>>, r |-> rem]
    ELSE BDivSmallPut(BDivSmallR(a, d, i - 1, (rem * B + a[i]) % d),
                      (rem * B + a[i]) \div d)

BDivSmallNorm(qr) == [q |-> BNorm(qr.q), r |-> qr.r]

BDivSmall(a, d) == BDivSmallNorm(BDivSmallR(a, d, Len(a), 0))

BShl(a, s) == BShiftLimbs(BMulSmall(a, Pow2(s % LimbBits)), s \div LimbBits)

BShr(a, s) ==
    IF s \div LimbBits >= Len(a) THEN <<>>
    ELSE BDivSmall(SubSeq(a, s \div LimbBits + 1, Len(a)), Pow2(s % LimbBits)).q

RECURSIVE BitLenSmall(_)
BitLenSmall(n) == IF n = 0 THEN 0 ELSE 1 + BitLenSmall(n \div 2)

BBitLen(a) ==
    IF a = <<>> THEN 0 ELSE LimbBits * (Len(a) - 1) + BitLenSmall(a[Len(a)])

BBit(a, i) == (Limb(a, i \div LimbBits + 1) \div Pow2(i % LimbBits)) % 2

\* all bits below bit i are zero
BLowZero(a, i) ==
    /\ \A k \in 1..Len(a) : k <= i \div LimbBits => a[k] = 0
    /\ Limb(a, i \div LimbBits + 1) % Pow2(i % LimbBits) = 0

\* a < b, for normalised a and b
RECURSIVE BLessAt(_, _, _)
BLessAt(a, b, i) ==
    IF i = 0 THEN FALSE
    ELSE IF a[i] # b[i] THEN a[i] < b[i]
    ELSE BLessAt(a, b, i - 1)

BLess(a, b) ==
    IF Len(a) # Len(b) THEN Len(a) < Len(b) ELSE BLessAt(a, b, Len(a))

(***************************************************************************)
(* IEEE-754 doubles (non-negative, normal range).                          *)
(***************************************************************************)
MantBits == 53

FZero == [m |-> <<>>, e |-> 0]

\* the double nearest to n * 2^e (+ a non-zero fraction below n when sticky),
\* ties to even
\* the rounded mantissa may have grown to 2^53
FRenorm(m, e) ==
    IF BBitLen(m) > MantBits THEN [m |-> BShr(m, 1), e |-> e + 1]
    ELSE [m |-> m, e |-> e]

\* hi is n without its s low bits: round up when those bits are more than
\* half, or exactly half and hi is odd
FRoundCut(n, e, sticky, s, hi) ==
    FRenorm(IF /\ BBit(n, s - 1) = 1
               /\ (~BLowZero(n, s - 1) \/ sticky \/ BBit(hi, 0) = 1)
            THEN BAdd(hi, <<1>>)
            ELSE hi,
            e + s)

FRoundLen(n, e, sticky, len) ==
    IF len <= MantBits
    THEN [m |-> BShl(n, MantBits - len), e |-> e - (MantBits - len)]
    ELSE FRoundCut(n, e, sticky, len - MantBits, BShr(n, len - MantBits))

FRound(n, e, sticky) ==
    IF n = <<>> THEN FZero ELSE FRoundLen(n, e, sticky, BBitLen(n))

\* float(n) for an int n
FInt(n) == FRound(BFromInt(n), 0, FALSE)

DivScale == 75

\* a / b for ints a >= 0 and 0 < b < B: Python's true division, correctly
\* rounded
FRoundQuotient(qr) == FRound(qr.q, 0 - DivScale, qr.r # 0)

FDivInt(a, b) == FRoundQuotient(BDivSmall(BShl(BFromInt(a), DivScale), b))

FMul(x, y) ==
    IF x.m = <<>> \/ y.m = <<>> THEN FZero
    ELSE FRound(BMul(x.m, y.m), x.e + y.e, FALSE)

FAddAt(x, y, lo) ==
    FRound(BAdd(BShl(x.m, x.e - lo), BShl(y.m, y.e - lo)), lo, FALSE)

FAdd(x, y) ==
    IF x.m = <<>> THEN y
    ELSE IF y.m = <<>> THEN x
    ELSE FAddAt(x, y, IF x.e < y.e THEN x.e ELSE y.e)

FLess(x, y) ==
    IF y.m = <<>> THEN FALSE
    ELSE IF x.m = <<>> THEN TRUE
    ELSE IF x.e # y.e THEN x.e < y.e
    ELSE BLess(x.m, y.m)

FLeq(x, y) == x = y \/ FLess(x, y)

\* math.pi = 0x1.921fb54442d18p+1
MathPi == [m |-> <<11544, 10376, 2029, 201>>, e |-> -51]


(***************************************************************************)
(* Strings: sequences of one-character strings.                            *)
(***************************************************************************)
\* the characters used, in code-point order
Chars ==
    << "!", "*", "-", "?",
       "A", "B", "C", "D", "E", "F", "G", "H", "I", "J", "K", "L", "M",
       "N", "O", "P", "Q", "R", "S", "T", "U", "V", "W", "X", "Y", "Z",
       "[", "]",
       "a", "b", "c", "d", "e", "f", "g", "h", "i", "j", "k", "l", "m",
       "n", "o", "p", "q", "r", "s", "t", "u", "v", "w", "x", "y", "z" >>

Ord(c) == CHOOSE i \in 1..Len(Chars) : Chars[i] = c

IsUpper(c) == Ord("A") <= Ord(c) /\ Ord(c) <= Ord("Z")

\* str.lower(), character by character
LowerChar(c) == IF IsUpper(c) THEN Chars[Ord(c) - Ord("A") + Ord("a")] ELSE c

Lower(s) == [i \in 1..Len(s) |-> LowerChar(s[i])]

(***************************************************************************)
(* fnmatch.fnmatch(name, pat) on POSIX (normcase is the identity there):   *)
(* `*` matches any run of characters, `?` any one character, `[seq]` one   *)
(* character of seq (`[!seq]` one not in seq, `a-z` a range), a `[` with   *)
(* no closing `]` itself; every other character matches itself.            *)
(***************************************************************************)
\* the index of the `]` that closes the class opened before pat[i], or 0
RECURSIVE ClassScan(_, _)
ClassScan(pat, j) ==
    IF j > Len(pat) THEN 0
    ELSE IF pat[j] = "]" THEN j
    ELSE ClassScan(pat, j + 1)

ClassEnd(pat, i) ==
    LET j1 == IF i <= Len(pat) /\ pat[i] = "!" THEN i + 1 ELSE i
        j2 == IF j1 <= Len(pat) /\ pat[j1] = "]" THEN j1 + 1 ELSE j1
    IN  ClassScan(pat, j2)

\* c is one of the characters or in one of the ranges of stuff
InStuff(stuff, c) ==
    \/ \E k \in 1..Len(stuff) :
          /\ stuff[k] = c
          /\ ~(c = "-" /\ 1 < k /\ k < Len(stuff))
    \/ \E k \in 2..(Len(stuff) - 1) :
          /\ stuff[k] = "-"
          /\ Ord(stuff[k - 1]) <= Ord(c)
          /\ Ord(c) <= Ord(stuff[k + 1])

\* does pat[i..j-1], the text between `[` and `]`, accept c
ClassAccepts(pat, i, j, c) ==
    LET stuff == SubSeq(pat, i, j - 1)
    IN  IF stuff = <<>> THEN FALSE
        ELSE IF stuff = <<"!">> THEN TRUE
        ELSE IF stuff[1] = "!" THEN ~InStuff(Tail(stuff), c)
        ELSE InStuff(stuff, c)

\* a variant of MatchAt: `*` is the only special character
RECURSIVE MatchAtStarOnly(_, _, _, _)
MatchAtStarOnly(name, pat, i, j) ==
    IF j > Len(pat) THEN i > Len(name)
    ELSE IF pat[j] = "*"
    THEN MatchAtStarOnly(name, pat, i, j + 1)
           \/ (i <= Len(name) /\ MatchAtStarOnly(name, pat, i + 1, j))
    ELSE IF i > Len(name) THEN FALSE
    ELSE name[i] = pat[j] /\ MatchAtStarOnly(name, pat, i + 1, j + 1)

RECURSIVE MatchAt(_, _, _, _)
MatchAt(name, pat, i, j) ==
    IF j > Len(pat) THEN i > Len(name)
    ELSE IF pat[j] = "*"
    THEN MatchAt(name, pat, i, j + 1)
           \/ (i <= Len(name) /\ MatchAt(name, pat, i + 1, j))
    ELSE IF i > Len(name) THEN FALSE
    ELSE IF pat[j] = "?" THEN MatchAt(name, pat, i + 1, j + 1)
    ELSE IF pat[j] = "[" /\ ClassEnd(pat, j + 1) # 0
    THEN /\ ClassAccepts(pat, j + 1, ClassEnd(pat, j + 1), name[i])
         /\ MatchAt(name, pat, i + 1, ClassEnd(pat, j + 1) + 1)
    ELSE name[i] = pat[j] /\ MatchAt(name, pat, i + 1, j + 1)

fnmatch(name, pat) == MatchAt(name, pat, 1, 1)

(***************************************************************************)
(* sorted(xs, key=..., reverse=True): Python's sort is stable, and with    *)
(* reverse=True elements with equal keys keep their original order.        *)
(***************************************************************************)
\* a variant of InsertDesc: x goes before the elements with an equal key
RECURSIVE InsertDescBeforeTies(_, _, _)
InsertDescBeforeTies(sorted, x, key) ==
    IF sorted = <<>> THEN <<x>>
    ELSE IF Head(sorted)[key] > x[key]
    THEN <<Head(sorted)>> \o InsertDescBeforeTies(Tail(sorted), x, key)
    ELSE <<x>> \o sorted

\* `key` names the field of the elements to sort by
RECURSIVE InsertDesc(_, _, _)
InsertDesc(sorted, x, key) ==
    IF sorted = <<>> THEN <<x>>
    ELSE IF Head(sorted)[key] >= x[key]
    THEN <<Head(sorted)>> \o InsertDesc(Tail(sorted), x, key)
    ELSE <<x>> \o sorted

RECURSIVE SortedDescFrom(_, _, _, _)
SortedDescFrom(xs, i, acc, key) ==
    IF i > Len(xs) THEN acc
    ELSE SortedDescFrom(xs, i + 1, InsertDesc(acc, xs[i], key), key)

SortedDesc(xs, key) == SortedDescFrom(xs, 1, <<>>, key)

\* xs[:n]
Take(xs, n) == SubSeq(xs, 1, IF Len(xs) < n THEN Len(xs) ELSE n)

\* sum(x[key] for x in xs)
RECURSIVE SumOf(_, _)
SumOf(xs, key) == IF xs = <<>> THEN 0 ELSE Head(xs)[key] + SumOf(Tail(xs), key)

(***************************************************************************)
(* The renderers.  A fragment is the list svg_parts before "\n".join, so   *)
(* the empty string is <<>>; a renderer returns [raises, text], raises     *)
(* naming the exception that leaves it ("none" when it returns).  An       *)
(* element keeps the values the markup is formatted from: the arc's two    *)
(* angles stand for its end points (center + radius * cos / sin of them).  *)
(***************************************************************************)
Returns(parts) == [raises |-> "none", text |-> parts]

Raises(exception) == [raises |-> exception, text |-> <<>>]

\* a variant of Slice: the flag is set from pi on (>= where the code has >)
SliceLargeFromPi(lang, start_angle, angle, end_angle) ==
    [ start_angle |-> start_angle,
      end_angle   |-> end_angle,
      angle       |-> angle,
      large_arc   |-> IF FLeq(MathPi, angle) THEN "1" ELSE "0",
      fill        |-> lang.color ]

\* the path of one slice
Slice(lang, start_angle, angle, end_angle) ==
    [ start_angle |-> start_angle,
      end_angle   |-> end_angle,
      angle       |-> angle,
      large_arc   |-> IF FLess(MathPi, angle) THEN "1" ELSE "0",
      fill        |-> lang.color ]

\* (lang["size"] / total_size) * 2 * math.pi
SliceAngle(lang, total_size) ==
    FMul(FMul(FDivInt(lang.size, total_size), FInt(2)), MathPi)

\* generate.py create_pie_chart, the loop over languages
RECURSIVE PieLoop(_, _, _, _)

PieNext(languages, total_size, i, start_angle, angle, end_angle) ==
    << Slice(languages[i], start_angle, angle, end_angle) >>
    \o PieLoop(languages, total_size, i + 1, end_angle)

\* a variant of PieStep: the slice ends at its own angle, the start forgotten
PieStepFromZero(languages, total_size, i, start_angle, angle) ==
    PieNext(languages, total_size, i, start_angle, angle, angle)

PieStep(languages, total_size, i, start_angle, angle) ==
    PieNext(languages, total_size, i, start_angle, angle, FAdd(start_angle, angle))

PieLoop(languages, total_size, i, start_angle) ==
    IF i > Len(languages) THEN <<>>
    ELSE PieStep(languages, total_size, i, start_angle,
                 SliceAngle(languages[i], total_size))

PieOf(languages, total_size) ==
    IF total_size = 0 THEN Returns(<<>>)
    ELSE Returns(PieLoop(languages, total_size, 1, FZero))

create_pie_chart(languages, center_x, center_y, radius) ==
    PieOf(languages, SumOf(languages, "size"))

\* github_stats.py create_enhanced_pie_chart, the loop over languages
RECURSIVE EnhancedPieLoop(_, _, _, _)

EnhancedPieNext(languages, total_size, i, start_angle, angle, end_angle) ==
    << Slice(languages[i], start_angle, angle, end_angle) >>
    \o EnhancedPieLoop(languages, total_size, i + 1, end_angle)

EnhancedPieStep(languages, total_size, i, start_angle, angle) ==
    EnhancedPieNext(languages, total_size, i, start_angle, angle,
                    FAdd(start_angle, angle))

EnhancedPieLoop(languages, total_size, i, start_angle) ==
    IF i > Len(languages) THEN <<>>
    ELSE EnhancedPieStep(languages, total_size, i, start_angle,
                         SliceAngle(languages[i], total_size))

EnhancedPieOf(languages, total_size) ==
    IF total_size = 0 THEN Returns(<<>>)
    ELSE Returns(EnhancedPieLoop(languages, total_size, 1, FZero))

create_enhanced_pie_chart(languages, center_x, center_y, radius) ==
    EnhancedPieOf(languages, SumOf(languages, "size"))

LegendTop == 10

LegendRowHeight == 28

KiB == 1024

\* one legend entry: the colour dot, the name, "percentage% (size_kbKB)"
LegendEntry(lang, total_size, start_y, i) ==
    [ name       |-> lang.name,
      fill       |-> lang.color,
      y          |-> start_y + i * LegendRowHeight,
      percentage |-> FMul(FDivInt(lang.size, total_size), FInt(100)),
      size_kb    |-> FDivInt(lang.size, KiB) ]

\* a variant of LegendOf: the percentages are of the total of the listed ones
LegendOfListedTotal(top_languages, total_size, start_y) ==
    IF top_languages # <<>> /\ total_size = 0
    THEN Raises("ZeroDivisionError")
    ELSE Returns([i \in 1..Len(top_languages) |->
                    LegendEntry(top_languages[i], SumOf(top_languages, "size"),
                                start_y, i - 1)])

\* the division lang["size"] / total_size raises when total_size is 0
LegendOf(top_languages, total_size, start_y) ==
    IF top_languages # <<>> /\ total_size = 0
    THEN Raises("ZeroDivisionError")
    ELSE Returns([i \in 1..Len(top_languages) |->
                    LegendEntry(top_languages[i], total_size, start_y, i - 1)])

create_legend(languages, start_x, start_y) ==
    LegendOf(Take(languages, LegendTop), SumOf(languages, "size"), start_y)

EnhancedLegendOf(top_languages, total_size, start_y) ==
    IF top_languages # <<>> /\ total_size = 0
    THEN Raises("ZeroDivisionError")
    ELSE Returns([i \in 1..Len(top_languages) |->
                    LegendEntry(top_languages[i], total_size, start_y, i - 1)])

create_enhanced_legend(languages, start_x, start_y) ==
    EnhancedLegendOf(Take(languages, LegendTop), SumOf(languages, "size"), start_y)

BarTop == 10

\* one row of create_bar_chart: lock icon, name, bar, "commit_count (size_kbKB)"
BarRow(repo, max_commits, start_y, max_width, row_height, i) ==
    [ name         |-> repo.name,
      y            |-> start_y + i * row_height,
      lock         |-> repo.isPrivate,
      bar_width    |-> FMul(FDivInt(repo.commit_count, max_commits), FInt(max_width)),
      commit_count |-> repo.commit_count,
      size_kb      |-> FDivInt(repo.size, KiB) ]

\* a variant of BarsOf: a highest count of 0 is not looked for, and the
\* division by max_commits raises
BarsOfUnguarded(sorted_repos, start_y, max_width, row_height) ==
    IF sorted_repos = <<>> THEN Returns(<<>>)
    ELSE IF sorted_repos[1].commit_count = 0 THEN Raises("ZeroDivisionError")
    ELSE Returns([i \in 1..Len(sorted_repos) |->
                    BarRow(sorted_repos[i], sorted_repos[1].commit_count, start_y,
                           max_width, row_height, i - 1)])

BarsOf(sorted_repos, start_y, max_width, row_height) ==
    IF sorted_repos = <<>> \/ sorted_repos[1].commit_count = 0
    THEN Returns(<<>>)
    ELSE Returns([i \in 1..Len(sorted_repos) |->
                    BarRow(sorted_repos[i], sorted_repos[1].commit_count, start_y,
                           max_width, row_height, i - 1)])

\* a variant of create_bar_chart: the first ten of the list as given are
\* kept, and then sorted
create_bar_chart_top_of_unsorted(repositories, start_x, start_y, max_width, row_height) ==
    BarsOf(SortedDesc(Take(repositories, BarTop), "commit_count"),
           start_y, max_width, row_height)

create_bar_chart(repositories, start_x, start_y, max_width, row_height) ==
    BarsOf(Take(SortedDesc(repositories, "commit_count"), BarTop),
           start_y, max_width, row_height)

EnhancedBarTop == 8

DotCount == 20

EnhancedBarRowHeight == 28

\* dot j of a row: opacity 1.0 when j/20 <= normalized, else 0.2
DotOpacity(j, normalized) ==
    IF FLeq(FDivInt(j, DotCount), normalized) THEN "1.0" ELSE "0.2"

Dots(normalized) == [k \in 1..DotCount |-> DotOpacity(k - 1, normalized)]

EnhancedBarRow(repo, max_commits, start_y, i) ==
    [ name |-> repo.name,
      y    |-> start_y + i * EnhancedBarRowHeight,
      dots |-> Dots(FDivInt(repo.commit_count, max_commits)) ]

EnhancedBarsOf(sorted_repos, start_y) ==
    IF sorted_repos = <<>> \/ sorted_repos[1].commit_count = 0
    THEN Returns(<<>>)
    ELSE Returns([i \in 1..Len(sorted_repos) |->
                    EnhancedBarRow(sorted_repos[i], sorted_repos[1].commit_count,
                                   start_y, i - 1)])

create_enhanced_bar_chart(repositories, start_x, start_y) ==
    EnhancedBarsOf(Take(SortedDesc(repositories, "commit_count"), EnhancedBarTop),
                   start_y)

(***************************************************************************)
(* The inputs: repository nodes as the GraphQL query returns them, and     *)
(* the contents config.json can have.                                      *)
(***************************************************************************)
Edge(name, size, color) == [size |-> size, node |-> [name |-> name, color |-> color]]

\* defaultBranchRef: null, or a ref whose target is null, or a commit history
NoBranch == [isNull |-> TRUE]

NoTarget == [isNull |-> FALSE, target |-> [isNull |-> TRUE]]

History(n) ==
    [isNull |-> FALSE, target |-> [isNull |-> FALSE, history |-> [totalCount |-> n]]]

Node(name, private, ref, edges) ==
    [name |-> name, isPrivate |-> private, defaultBranchRef |-> ref,
     languages |-> [edges |-> edges]]

Python == <<"P", "y", "t", "h", "o", "n">>

Html == <<"H", "T", "M", "L">>

HtmlLower == <<"h", "t", "m", "l">>

Css == <<"C", "S", "S">>

Go == <<"G", "o">>

NodePool ==
    { Node(<<"a", "p", "p">>, FALSE, History(40),
           <<Edge(Python, 100, "#3572A5"), Edge(Html, 50, "#e34c26")>>),
      Node(<<"m", "y", "-", "e", "x", "a", "m", "p", "l", "e">>, FALSE, History(10),
           <<Edge(Python, 7, "#00ff00")>>),
      Node(<<"l", "i", "b">>, TRUE, NoBranch,
           <<Edge(Python, 30, "#ffd43b"), Edge(Css, 20, "#563d7c")>>),
      Node(<<"k", "e", "n", "g", "o", "-", "k">>, FALSE, History(3),
           <<Edge(Go, 5, "#00ADD8")>>),
      Node(<<"z", "e", "r", "o">>, FALSE, NoTarget,
           <<Edge(Go, 0, "#00ADD8")>>),
      Node(<<"w", "e", "b">>, TRUE, History(10),
           <<Edge(HtmlLower, 8, "#e34c26"), Edge(Go, 12, "#375eab")>>) }

MaxRepos == 2

\* the lists of at most MaxRepos nodes with distinct names
NodeLists ==
    UNION { { xs \in [1..n -> NodePool] :
                \A a, b \in 1..n : a # b => xs[a].name # xs[b].name } :
            n \in 0..MaxRepos }

\* load_config's defaults
DefaultConfig ==
    [ excluded_languages    |-> <<<<"h", "t", "m", "l">>, <<"c", "s", "s">>, <<"d", "o", "c", "k", "e", "r", "f", "i", "l", "e">>, <<"m", "a", "k", "e", "f", "i", "l", "e">>, <<"s", "h", "e", "l", "l">>>>,
      excluded_repositories |-> <<<<"z", "e", "n", "n", "-", "p", "o", "s", "t", "s">>, <<"k", "e", "n", "g", "o", "-", "k">>, <<"*", "e", "x", "a", "m", "p", "l", "e">>>> ]

\* config.json: absent, not JSON, or a JSON object (a function of its keys;
\* the last one is the object without keys)
ConfigFiles ==
    { [kind |-> "missing", json |-> <<>>],
      [kind |-> "invalid", json |-> <<>>],
      [kind |-> "json",
       json |-> [ excluded_languages    |-> <<<<"p", "y", "t", "h", "o", "n">>, <<"H", "T", "M", "L">>>>,
                  excluded_repositories |-> <<<<"l", "?", "b">>>> ]],
      [kind |-> "json",
       json |-> [ excluded_languages |-> <<<<"h", "t", "m", "l">>>> ]],
      [kind |-> "json", json |-> <<>>] }

Range(xs) == { xs[k] : k \in DOMAIN xs }

(***************************************************************************)
(* State.                                                                  *)
(***************************************************************************)
VARIABLES
    remote,                \* the repository nodes GitHub holds for the user
    config_file,           \* what config.json holds
    clock,                 \* the wall clock, in ticks
    pc,                    \* where the invocation of hello stands
    calls,                 \* the functions hello's invocation has entered, in order
    http,                  \* get_github_data: what requests.post gave
    repositories,          \* create_svg: its argument
    excluded_languages,    \* create_svg: set(config["excluded_languages"])
    excluded_repositories, \* create_svg: set(config["excluded_repositories"])
    language_stats,        \* create_svg: the defaultdict, in insertion order
    processed_repos,       \* create_svg: the list of processed repositories
    repo_i,                \* create_svg: index of the repository being visited
    edge_j,                \* create_svg: index of the edge being visited
    result,                \* hello: what generate_stats returned
    upload_result,         \* hello: what upload_to_s3 returned
    response,              \* what hello returned
    documents,             \* the documents of the last two create_svg calls
    input,                 \* a renderer called on its own: its argument
    output,                \* ... what it returned
    called                 \* ... and which renderer it was

vars ==
    << remote, config_file, clock, pc, calls, http, repositories, excluded_languages,
       excluded_repositories, language_stats, processed_repos, repo_i, edge_j,
       result, upload_result, response, documents, input, output, called >>

env == << remote, config_file >>

locals ==
    << repositories, excluded_languages, excluded_repositories, language_stats,
       processed_repos, repo_i, edge_j >>

standalone == << input, output, called >>

\* Python's None
None == [isNone |-> TRUE]

MaxClock == 2

TicksPerMinute == 2

\* datetime.now().strftime('%Y-%m-%d %H:%M'): the time to the minute
Strftime(t) == t \div TicksPerMinute

(***************************************************************************)
(* hello (handler.py) and what it calls.                                   *)
(***************************************************************************)
JsonResponse(status, body) ==
    [statusCode |-> status, headers |-> "application/json", body |-> body]

\* the environment variables GITHUB_USERNAME and GITHUB_TOKEN are set or not
Environments == { [username |-> TRUE,  token |-> TRUE],
                  [username |-> TRUE,  token |-> FALSE],
                  [username |-> FALSE, token |-> TRUE] }

\* handler.py 10-21: read the environment; answer 400, or enter generate_stats
HelloStart ==
    /\ pc \in {"idle", "returned"}
    /\ \E environ \in Environments :
          IF ~environ.username \/ ~environ.token
          THEN /\ pc' = "returned"
               /\ calls' = <<"hello">>
               /\ response' = JsonResponse(400,
                      [error |-> "GITHUB_USERNAME and GITHUB_TOKEN are required"])
          ELSE /\ pc' = "get_github_data"
               /\ calls' = <<"hello", "generate_stats">>
               /\ response' = None
    /\ http' = None
    /\ result' = None
    /\ upload_result' = None
    /\ UNCHANGED << env, clock, locals, documents, standalone >>

\* what requests.post can give: a status code and whether the body has "errors",
\* or an exception of its own
HttpResponses ==
    { [raises |-> "none", status_code |-> 200, errors |-> FALSE],
      [raises |-> "none", status_code |-> 200, errors |-> TRUE],
      [raises |-> "none", status_code |-> 401, errors |-> FALSE],
      [raises |-> "ConnectionError", status_code |-> 0, errors |-> FALSE] }

\* a variant of get_github_data: the "errors" of the payload are not looked at
get_github_data_ignoring_errors(post) ==
    IF post.raises # "none" THEN [raises |-> post.raises, nodes |-> <<>>]
    ELSE IF post.status_code # 200
    THEN [raises |-> "GitHub API error", nodes |-> <<>>]
    ELSE [raises |-> "none", nodes |-> remote]

\* get_github_data (generate.py 49-61): the nodes, or the exception raised
get_github_data(post) ==
    IF post.raises # "none" THEN [raises |-> post.raises, nodes |-> <<>>]
    ELSE IF post.status_code # 200
    THEN [raises |-> "GitHub API error", nodes |-> <<>>]
    ELSE IF post.errors THEN [raises |-> "GraphQL errors", nodes |-> <<>>]
    ELSE [raises |-> "none", nodes |-> remote]

\* a variant of Failure: the exception is passed on, not caught
Reraise(exception) == [raised |-> exception]

\* generate_stats's except clause (generate.py 353-354)
Failure(exception) == [success |-> FALSE, error |-> exception]

\* generate.py 349-351: the fetch; on success create_svg is entered
GetGithubData ==
    /\ pc = "get_github_data"
    /\ http' \in HttpResponses
    /\ IF get_github_data(http').raises # "none"
       THEN /\ result' = Failure(get_github_data(http').raises)
            /\ pc' = "generated"
            /\ calls' = Append(calls, "get_github_data")
            /\ UNCHANGED repositories
       ELSE /\ repositories' = get_github_data(http').nodes
            /\ pc' = "create_svg"
            /\ calls' = calls \o <<"get_github_data", "create_svg">>
            /\ UNCHANGED result
    /\ UNCHANGED << env, clock, excluded_languages, excluded_repositories,
                    language_stats, processed_repos, repo_i, edge_j,
                    upload_result, response, documents, standalone >>

\* load_config (generate.py 204-224)
load_config ==
    IF config_file.kind = "json" THEN config_file.json ELSE DefaultConfig

\* a variant of CreateSvgStart: the accumulators are kept from the last call
CreateSvgStartKeepStats ==
    /\ pc = "create_svg"
    /\ LET config == load_config
       IN  IF "excluded_languages" \notin DOMAIN config
           THEN /\ result' = Failure("KeyError: 'excluded_languages'")
                /\ pc' = "generated"
                /\ UNCHANGED << excluded_languages, excluded_repositories >>
           ELSE IF "excluded_repositories" \notin DOMAIN config
           THEN /\ result' = Failure("KeyError: 'excluded_repositories'")
                /\ pc' = "generated"
                /\ UNCHANGED << excluded_languages, excluded_repositories >>
           ELSE /\ excluded_languages' = Range(config.excluded_languages)
                /\ excluded_repositories' = Range(config.excluded_repositories)
                /\ pc' = "repos"
                /\ UNCHANGED result
    /\ repo_i' = 1
    /\ edge_j' = 1
    /\ UNCHANGED << env, http, clock, calls, repositories, language_stats,
                    processed_repos, upload_result, response, documents, standalone >>

\* generate.py 231-238: the configuration and the empty accumulators; a key
\* the configuration lacks raises KeyError
CreateSvgStart ==
    /\ pc = "create_svg"
    /\ LET config == load_config
       IN  IF "excluded_languages" \notin DOMAIN config
           THEN /\ result' = Failure("KeyError: 'excluded_languages'")
                /\ pc' = "generated"
                /\ UNCHANGED << excluded_languages, excluded_repositories >>
           ELSE IF "excluded_repositories" \notin DOMAIN config
           THEN /\ result' = Failure("KeyError: 'excluded_repositories'")
                /\ pc' = "generated"
                /\ UNCHANGED << excluded_languages, excluded_repositories >>
           ELSE /\ excluded_languages' = Range(config.excluded_languages)
                /\ excluded_repositories' = Range(config.excluded_repositories)
                /\ pc' = "repos"
                /\ UNCHANGED result
    /\ language_stats' = <<>>
    /\ processed_repos' = <<>>
    /\ repo_i' = 1
    /\ edge_j' = 1
    /\ UNCHANGED << env, http, clock, calls, repositories, upload_result, response,
                    documents, standalone >>

\* generate.py 242-244: any(fnmatch.fnmatch(name, pattern) for pattern in ...)
IsExcludedRepository(name, patterns) == \E pattern \in patterns : fnmatch(name, pattern)

\* a variant of VisitRepository: the patterns are not consulted
VisitRepositoryNoSkip ==
    /\ pc = "repos"
    /\ repo_i <= Len(repositories)
    /\ pc' = "edges"
    /\ edge_j' = 1
    /\ UNCHANGED << env, http, clock, calls, repositories, excluded_languages,
                    excluded_repositories, language_stats, processed_repos, repo_i,
                    result, upload_result, response, documents, standalone >>

\* generate.py 240-245: the next repository is skipped, or its edges are entered
VisitRepository ==
    /\ pc = "repos"
    /\ repo_i <= Len(repositories)
    /\ IF IsExcludedRepository(repositories[repo_i].name, excluded_repositories)
       THEN /\ repo_i' = repo_i + 1
            /\ UNCHANGED << pc, edge_j >>
       ELSE /\ pc' = "edges"
            /\ edge_j' = 1
            /\ UNCHANGED repo_i
    /\ UNCHANGED << env, http, clock, calls, repositories, excluded_languages,
                    excluded_repositories, language_stats, processed_repos,
                    result, upload_result, response, documents, standalone >>

\* language_stats[lang_name], the defaultdict's entry (created on first use)
HasEntry(stats, name) == \E k \in 1..Len(stats) : stats[k].name = name

\* a variant of WithEntry: an entry is added whether or not there is one
WithEntryAlways(stats, name) ==
    Append(stats, [name |-> name, size |-> 0, color |-> "#000000"])

WithEntry(stats, name) ==
    IF HasEntry(stats, name) THEN stats
    ELSE Append(stats, [name |-> name, size |-> 0, color |-> "#000000"])

\* a variant of FoldEdge: size = edge size, the earlier edges forgotten
FoldEdgeOverwrite(stats, lang_edge) ==
    LET lang_name == lang_edge.node.name
        entries   == WithEntry(stats, lang_name)
    IN  [k \in 1..Len(entries) |->
            IF entries[k].name = lang_name
            THEN [name  |-> lang_name,
                  size  |-> lang_edge.size,
                  color |-> lang_edge.node.color]
            ELSE entries[k]]

\* a variant of FoldEdge: the colour of the language's first edge is kept
FoldEdgeFirstColor(stats, lang_edge) ==
    LET lang_name == lang_edge.node.name
        entries   == WithEntry(stats, lang_name)
    IN  [k \in 1..Len(entries) |->
            IF entries[k].name = lang_name
            THEN [name  |-> lang_name,
                  size  |-> entries[k].size + lang_edge.size,
                  color |-> IF HasEntry(stats, lang_name) THEN entries[k].color
                            ELSE lang_edge.node.color]
            ELSE entries[k]]

\* generate.py 253-254: size += edge size; color = edge color
FoldEdge(stats, lang_edge) ==
    LET lang_name == lang_edge.node.name
        entries   == WithEntry(stats, lang_name)
    IN  [k \in 1..Len(entries) |->
            IF entries[k].name = lang_name
            THEN [name  |-> lang_name,
                  size  |-> entries[k].size + lang_edge.size,
                  color |-> lang_edge.node.color]
            ELSE entries[k]]

\* generate.py 251: lang_name.lower() in excluded_languages
IsExcludedLanguage(lang_name, excluded) == Lower(lang_name) \in excluded

\* generate.py 248-254: one edge of the repository
VisitEdge ==
    /\ pc = "edges"
    /\ edge_j <= Len(repositories[repo_i].languages.edges)
    /\ LET lang_edge == repositories[repo_i].languages.edges[edge_j]
       IN  language_stats' =
              IF IsExcludedLanguage(lang_edge.node.name, excluded_languages)
              THEN language_stats
              ELSE FoldEdge(language_stats, lang_edge)
    /\ edge_j' = edge_j + 1
    /\ UNCHANGED << env, http, clock, pc, calls, repositories, excluded_languages,
                    excluded_repositories, processed_repos, repo_i,
                    result, upload_result, response, documents, standalone >>

\* generate.py 257-259
CommitCount(repo) ==
    IF ~repo.defaultBranchRef.isNull /\ ~repo.defaultBranchRef.target.isNull
    THEN repo.defaultBranchRef.target.history.totalCount
    ELSE 0

\* a variant of ProcessedRepo: size counts only the edges language_stats counts
ProcessedRepoCountedOnly(repo) ==
    [ name         |-> repo.name,
      commit_count |-> CommitCount(repo),
      size         |-> SumOf(SelectSeq(repo.languages.edges,
                                       LAMBDA e : ~IsExcludedLanguage(e.node.name,
                                                                      excluded_languages)),
                             "size"),
      isPrivate    |-> repo.isPrivate ]

\* generate.py 262-270
ProcessedRepo(repo) ==
    [ name         |-> repo.name,
      commit_count |-> CommitCount(repo),
      size         |-> SumOf(repo.languages.edges, "size"),
      isPrivate    |-> repo.isPrivate ]

\* generate.py 256-271: after the repository's last edge
FinishRepository ==
    /\ pc = "edges"
    /\ edge_j > Len(repositories[repo_i].languages.edges)
    /\ processed_repos' = Append(processed_repos, ProcessedRepo(repositories[repo_i]))
    /\ repo_i' = repo_i + 1
    /\ pc' = "repos"
    /\ UNCHANGED << env, http, clock, calls, repositories, excluded_languages,
                    excluded_repositories, language_stats, edge_j,
                    result, upload_result, response, documents, standalone >>

\* generate.py 274-278: the dict's items, sorted by size, largest first
Languages(stats) == SortedDesc(stats, "size")

\* generate.py 280-340: the document, or the exception a renderer raised; the
\* fixed markup (canvas, filters, titles, panels) is the same in every document
Compose(pie, legend, bars, now) ==
    IF pie.raises # "none" THEN Raises(pie.raises)
    ELSE IF legend.raises # "none" THEN Raises(legend.raises)
    ELSE IF bars.raises # "none" THEN Raises(bars.raises)
    ELSE Returns([ width        |-> 850,
                   height       |-> 450,
                   pie          |-> pie.text,
                   legend       |-> legend.text,
                   bars         |-> bars.text,
                   generated_at |-> Strftime(now) ])

Document(languages, repos, now) ==
    Compose(create_pie_chart(languages, 140, 270, 70),
            create_legend(languages, 250, 150),
            create_bar_chart(repos, 465, 150, 85, 24),
            now)

\* the last two documents made, the newest last
Remember(docs, doc) ==
    IF docs = <<>> THEN <<doc>> ELSE <<docs[Len(docs)], doc>>

\* generate.py 273-342 and 351-354: after the last repository the document is
\* built and generate_stats returns
Render ==
    /\ pc = "repos"
    /\ repo_i > Len(repositories)
    /\ \E svg \in {Document(Languages(language_stats), processed_repos, clock)} :
          IF svg.raises # "none"
          THEN /\ result' = Failure(svg.raises)
               /\ UNCHANGED documents
          ELSE /\ result' = [success |-> TRUE, svg |-> svg.text, username |-> "user"]
               /\ documents' = Remember(documents, svg.text)
    /\ pc' = "generated"
    /\ UNCHANGED << env, http, clock, calls, locals, upload_result, response, standalone >>

\* a variant of HelloGenerated: upload_to_s3 is entered whatever was generated
HelloGeneratedAlwaysUploads ==
    /\ pc = "generated"
    /\ pc' = "upload_to_s3"
    /\ calls' = Append(calls, "upload_to_s3")
    /\ UNCHANGED << env, http, clock, locals, result, upload_result, response,
                    documents, standalone >>

\* handler.py 23-31: a failed generation is answered 500; else upload_to_s3 is
\* entered
HelloGenerated ==
    /\ pc = "generated"
    /\ IF ~result.success
       THEN /\ response' = JsonResponse(500,
                        [error |-> <<"SVG generation failed: ", result.error>>])
            /\ pc' = "returned"
            /\ UNCHANGED calls
       ELSE /\ pc' = "upload_to_s3"
            /\ calls' = Append(calls, "upload_to_s3")
            /\ UNCHANGED response
    /\ UNCHANGED << env, http, clock, locals, result, upload_result, documents, standalone >>

\* how the upload can end: S3_BUCKET_NAME unset (ValueError), put_object done,
\* or one of the exceptions upload_to_s3 catches
S3Outcomes == {"ok", "ValueError", "NoCredentialsError", "ClientError", "Exception"}

\* upload_to_s3 (upload.py 19-62)
upload_to_s3(svg_content, object_key, outcome, now) ==
    IF outcome = "ok"
    THEN [ success     |-> TRUE,
           bucket      |-> "bucket",
           key         |-> object_key,
           url         |-> <<"https://", "bucket", ".s3.amazonaws.com/", object_key>>,
           uploaded_at |-> now ]
    ELSE IF outcome = "NoCredentialsError"
    THEN [success |-> FALSE, error |-> "AWS credentials not found"]
    ELSE IF outcome = "ClientError"
    THEN [success |-> FALSE, error |-> "AWS S3 error"]
    ELSE [success |-> FALSE, error |-> "Upload failed"]

\* handler.py 31
UploadToS3 ==
    /\ pc = "upload_to_s3"
    /\ \E outcome \in S3Outcomes :
          upload_result' = upload_to_s3(result.svg, "github-stats.svg", outcome, clock)
    /\ pc' = "uploaded"
    /\ UNCHANGED << env, http, clock, calls, locals, result, response, documents, standalone >>

\* handler.py 33-49
HelloUploaded ==
    /\ pc = "uploaded"
    /\ response' =
          IF upload_result.success
          THEN JsonResponse(200,
                   [ message     |-> "GitHub stats generated and uploaded successfully",
                     username    |-> "user",
                     s3_url      |-> upload_result.url,
                     uploaded_at |-> upload_result.uploaded_at ])
          ELSE JsonResponse(500,
                   [error |-> <<"S3 upload failed: ", upload_result.error>>])
    /\ pc' = "returned"
    /\ UNCHANGED << env, http, clock, calls, locals, result, upload_result, documents,
                    standalone >>

\* time passes
Tick ==
    /\ clock < MaxClock
    /\ clock' = clock + 1
    /\ UNCHANGED << env, http, pc, calls, locals, result, upload_result, response,
                    documents, standalone >>

Init ==
    /\ remote \in NodeLists
    /\ config_file \in ConfigFiles
    /\ clock = 0
    /\ pc = "idle"
    /\ calls = <<>>
    /\ http = None
    /\ repositories = <<>>
    /\ excluded_languages = {}
    /\ excluded_repositories = {}
    /\ language_stats = <<>>
    /\ processed_repos = <<>>
    /\ repo_i = 1
    /\ edge_j = 1
    /\ result = None
    /\ upload_result = None
    /\ response = None
    /\ documents = <<>>
    /\ input = <<>>
    /\ output = None
    /\ called = "none"

Next ==
    \/ HelloStart
    \/ GetGithubData
    \/ CreateSvgStart
    \/ VisitRepository
    \/ VisitEdge
    \/ FinishRepository
    \/ Render
    \/ HelloGenerated
    \/ UploadToS3
    \/ HelloUploaded
    \/ Tick

Spec == Init /\ [][Next]_vars

(***************************************************************************)
(* The renderers on their own: each is called once on a list drawn from    *)
(* a bounded set.                                                          *)
(***************************************************************************)
Idle ==
    /\ remote = <<>>
    /\ config_file = [kind |-> "missing", json |-> <<>>]
    /\ clock = 0
    /\ pc = "idle"
    /\ calls = <<>>
    /\ http = None
    /\ repositories = <<>>
    /\ excluded_languages = {}
    /\ excluded_repositories = {}
    /\ language_stats = <<>>
    /\ processed_repos = <<>>
    /\ repo_i = 1
    /\ edge_j = 1
    /\ result = None
    /\ upload_result = None
    /\ response = None
    /\ documents = <<>>

pipeline ==
    << remote, config_file, clock, pc, calls, http, locals, result, upload_result,
       response, documents >>

\* the commit counts a repository is given
CommitCounts == {0, 10, 40}

MaxBarRepos == 11

MaxMixedRepos == 4

\* the k-th processed repository of a list, with commit count c
Repo(k, c) ==
    [ name         |-> <<"r", Chars[Ord("a") + k]>>,
      commit_count |-> c,
      size         |-> KiB * k,
      isPrivate    |-> k % 2 = 0 ]

\* processed-repository lists: every mix of the commit counts in the short
\* ones, the non-zero counts in the long ones
BarInputs ==
    UNION { { [k \in 1..n |-> Repo(k, cs[k])] :
                cs \in [1..n -> IF n <= MaxMixedRepos THEN CommitCounts
                                ELSE CommitCounts \ {0}] } :
            n \in 0..MaxBarRepos }

InitBars ==
    /\ Idle
    /\ input \in BarInputs
    /\ output = None
    /\ called = "none"

\* generate.py 335: create_bar_chart(processed_repos, 465, 150, 85, 24)
CallCreateBarChart ==
    /\ called = "none"
    /\ output' = create_bar_chart(input, 465, 150, 85, 24)
    /\ called' = "create_bar_chart"
    /\ UNCHANGED << pipeline, input >>

\* github_stats.py 293: create_enhanced_bar_chart(repositories, start_x, start_y)
CallCreateEnhancedBarChart ==
    /\ called = "none"
    /\ output' = create_enhanced_bar_chart(input, 430, 150)
    /\ called' = "create_enhanced_bar_chart"
    /\ UNCHANGED << pipeline, input >>

NextBars ==
    \/ CallCreateBarChart
    \/ CallCreateEnhancedBarChart

SpecBars == InitBars /\ [][NextBars]_vars

\* the sizes a language is given
Sizes == {0, 1, 4, 7}

MaxLanguages == 11

\* the k-th language of a list
Lang(k, size) ==
    [ name  |-> <<"l", Chars[Ord("a") + k]>>,
      size  |-> size,
      color |-> IF k % 2 = 0 THEN "#3572A5" ELSE "#e34c26" ]

MaxSize == CHOOSE x \in Sizes : \A y \in Sizes : y <= x

\* the lists of n sizes, none above top, largest first
RECURSIVE Descending(_, _)
Descending(n, top) ==
    IF n = 0 THEN {<<>>}
    ELSE UNION { { <<v>> \o rest : rest \in Descending(n - 1, v) } :
                 v \in { x \in Sizes : x <= top } }

\* language lists as create_svg passes them: sorted by size, largest first
LanguageInputs ==
    UNION { { [k \in 1..n |-> Lang(k, sizes[k])] : sizes \in Descending(n, MaxSize) } :
            n \in 0..MaxLanguages }

InitLanguages ==
    /\ Idle
    /\ input \in LanguageInputs
    /\ output = None
    /\ called = "none"

\* generate.py 325: create_pie_chart(languages, 140, 270, 70)
CallCreatePieChart ==
    /\ called = "none"
    /\ output' = create_pie_chart(input, 140, 270, 70)
    /\ called' = "create_pie_chart"
    /\ UNCHANGED << pipeline, input >>

\* github_stats.py 408: create_enhanced_pie_chart(languages, 140, 270, 70)
CallCreateEnhancedPieChart ==
    /\ called = "none"
    /\ output' = create_enhanced_pie_chart(input, 140, 270, 70)
    /\ called' = "create_enhanced_pie_chart"
    /\ UNCHANGED << pipeline, input >>

\* generate.py 328: create_legend(languages, 250, 150)
CallCreateLegend ==
    /\ called = "none"
    /\ output' = create_legend(input, 250, 150)
    /\ called' = "create_legend"
    /\ UNCHANGED << pipeline, input >>

\* github_stats.py 411: create_enhanced_legend(languages, 250, 150)
CallCreateEnhancedLegend ==
    /\ called = "none"
    /\ output' = create_enhanced_legend(input, 250, 150)
    /\ called' = "create_enhanced_legend"
    /\ UNCHANGED << pipeline, input >>

NextLanguages ==
    \/ CallCreatePieChart
    \/ CallCreateEnhancedPieChart
    \/ CallCreateLegend
    \/ CallCreateEnhancedLegend

SpecLanguages == InitLanguages /\ [][NextLanguages]_vars

(***************************************************************************)
(* The repository filter on its own: a name and a set of patterns drawn    *)
(* from bounded sets.                                                      *)
(***************************************************************************)
MaxNameLen == 3

MaxPatternLen == 3

\* the strings of at most n characters of the set
Strings(alphabet, n) == UNION { [1..k -> alphabet] : k \in 0..n }

\* repository names, some with the characters patterns treat specially
Names ==
    Strings({"a", "A", "?", "["}, MaxNameLen)
        \cup { <<"[", "]">>, <<"a", "]">>, <<"!">>, <<"b">>, <<"-">>,
               <<"l", "i", "b">>, <<"a", "b", "c", "a">> }

\* patterns: every short string of the special characters and a letter, and
\* some with a negated class, a range or a `]` inside a class
Patterns ==
    Strings({"a", "*", "?", "[", "]"}, MaxPatternLen)
        \cup { <<"[", "!", "a", "]">>, <<"[", "a", "-", "c", "]">>,
               <<"[", "]", "a", "]">>, <<"[", "!", "]", "]">>,
               <<"[", "!", "a", "-", "c", "]">>, <<"[", "a", "-", "]">>,
               <<"l", "?", "b">>, <<"a", "*", "a">>, <<"[", "!">> }

\* the sets of patterns: none, one, or one and a second that is fixed
PatternSets ==
    {{}} \cup { {pat} : pat \in Patterns }
         \cup { {pat, <<"A", "*">>} : pat \in Patterns }

FilterInputs == [name : Names, patterns : PatternSets]

InitFilter ==
    /\ Idle
    /\ input \in FilterInputs
    /\ output = None
    /\ called = "none"

\* generate.py 242-244: any(fnmatch.fnmatch(repo["name"], pattern) for ...)
CallIsExcludedRepository ==
    /\ called = "none"
    /\ output' = IsExcludedRepository(input.name, input.patterns)
    /\ called' = "any(fnmatch.fnmatch)"
    /\ UNCHANGED << pipeline, input >>

NextFilter == CallIsExcludedRepository

SpecFilter == InitFilter /\ [][NextFilter]_vars

(***************************************************************************)
(* The earlier revision of the aggregation (github_stats.py create_svg,    *)
(* lines 327-361) and the two revisions run on the same repositories.      *)
(***************************************************************************)
\* github_stats.py 328
LegacyExcludedLanguages ==
    { <<"h", "t", "m", "l">>, <<"c", "s", "s">>,
      <<"d", "o", "c", "k", "e", "r", "f", "i", "l", "e">>,
      <<"m", "a", "k", "e", "f", "i", "l", "e">>, <<"s", "h", "e", "l", "l">> }

\* github_stats.py 331: the defaultdict's entry, created on first use
LegacyWithEntry(stats, name) ==
    IF \E k \in 1..Len(stats) : stats[k].name = name THEN stats
    ELSE Append(stats, [name |-> name, size |-> 0, color |-> "#000000"])

\* github_stats.py 339-340: size += edge size; color = edge color
LegacyFoldEdge(stats, lang_edge) ==
    LET lang_name == lang_edge.node.name
        entries   == LegacyWithEntry(stats, lang_name)
    IN  [k \in 1..Len(entries) |->
            IF entries[k].name = lang_name
            THEN [name  |-> lang_name,
                  size  |-> entries[k].size + lang_edge.size,
                  color |-> lang_edge.node.color]
            ELSE entries[k]]

\* github_stats.py 335-340: the edges of one repository from the j-th on
RECURSIVE LegacyVisitEdges(_, _, _)
LegacyVisitEdges(stats, edges, j) ==
    IF j > Len(edges) THEN stats
    ELSE LegacyVisitEdges(
            IF Lower(edges[j].node.name) \in LegacyExcludedLanguages
            THEN stats
            ELSE LegacyFoldEdge(stats, edges[j]),
            edges, j + 1)

\* github_stats.py 333-340: the repositories from the i-th on; none is skipped
RECURSIVE LegacyVisitRepositories(_, _, _)
LegacyVisitRepositories(stats, repos, i) ==
    IF i > Len(repos) THEN stats
    ELSE LegacyVisitRepositories(
            LegacyVisitEdges(stats, repos[i].languages.edges, 1), repos, i + 1)

\* github_stats.py 343-345
LegacyCommitCount(repo) ==
    IF ~repo.defaultBranchRef.isNull /\ ~repo.defaultBranchRef.target.isNull
    THEN repo.defaultBranchRef.target.history.totalCount
    ELSE 0

\* github_stats.py 348-354
LegacyProcessedRepo(repo) ==
    [ name         |-> repo.name,
      commit_count |-> LegacyCommitCount(repo),
      size         |-> SumOf(repo.languages.edges, "size") ]

\* github_stats.py 357-359: the dict's items, sorted by size, largest first
LegacyLanguages(stats) == SortedDesc(stats, "size")

\* github_stats.py 327-361: languages and processed_repos as create_svg holds
\* them when it starts to draw
LegacyCreateSvg(repos) ==
    [ languages       |-> LegacyLanguages(LegacyVisitRepositories(<<>>, repos, 1)),
      processed_repos |-> [i \in 1..Len(repos) |-> LegacyProcessedRepo(repos[i])] ]

Shell == <<"S", "h", "e", "l", "l">>

Makefile == <<"M", "a", "k", "e", "f", "i", "l", "e">>

Dockerfile == <<"D", "o", "c", "k", "e", "r", "f", "i", "l", "e">>

\* the nodes both revisions are run on: those of NodePool and some with the
\* other languages excluded by default, with two languages of one size, and
\* with a name the default patterns exclude
RevisionPool ==
    NodePool \cup
    { Node(<<"o", "p", "s">>, FALSE, History(7),
           <<Edge(Shell, 9, "#89e051"), Edge(Go, 30, "#00ADD8"),
             Edge(Makefile, 4, "#427819"), Edge(Python, 30, "#3572A5"),
             Edge(Dockerfile, 2, "#384d54")>>),
      Node(<<"z", "e", "n", "n", "-", "p", "o", "s", "t", "s">>, TRUE, History(99),
           <<Edge(Css, 6, "#563d7c"), Edge(Python, 1, "#000001")>>) }

RevisionInputs ==
    UNION { { xs \in [1..n -> RevisionPool] :
                \A a, b \in 1..n : a # b => xs[a].name # xs[b].name } :
            n \in 0..MaxRepos }

\* generate.py create_svg entered with the repositories, config.json absent
\* or not JSON (the default configuration); github_stats.py create_svg not
\* yet called on them
InitRevisions ==
    /\ input \in RevisionInputs
    /\ remote = input
    /\ repositories = input
    /\ config_file \in { [kind |-> "missing", json |-> <<>>],
                         [kind |-> "invalid", json |-> <<>>] }
    /\ clock = 0
    /\ pc = "create_svg"
    /\ calls = <<"generate_stats">>
    /\ http = None
    /\ excluded_languages = {}
    /\ excluded_repositories = {}
    /\ language_stats = <<>>
    /\ processed_repos = <<>>
    /\ repo_i = 1
    /\ edge_j = 1
    /\ result = None
    /\ upload_result = None
    /\ response = None
    /\ documents = <<>>
    /\ output = None
    /\ called = "none"

\* github_stats.py 323: create_svg(repositories)
CallLegacyCreateSvg ==
    /\ called = "none"
    /\ output' = LegacyCreateSvg(input)
    /\ called' = "github_stats.create_svg"
    /\ UNCHANGED << pipeline, input >>

NextRevisions ==
    \/ CreateSvgStart
    \/ VisitRepository
    \/ VisitEdge
    \/ FinishRepository
    \/ Render
    \/ CallLegacyCreateSvg

SpecRevisions == InitRevisions /\ [][NextRevisions]_vars

(***************************************************************************)
(* Properties of the aggregation (create_svg's loop).                      *)
(***************************************************************************)
\* the loop over the repositories has ended and the renderers are next
LoopDone == pc = "repos" /\ repo_i > Len(repositories)

\* the repository's name matches one of the patterns in force
Matches(repo) == IsExcludedRepository(repo.name, excluded_repositories)

\* the edges of the repository whose language is not excluded
CountedEdges(repo) ==
    SelectSeq(repo.languages.edges,
              LAMBDA e : ~IsExcludedLanguage(e.node.name, excluded_languages))

\* the repositories of the list that match no pattern
Surviving(repos) == SelectSeq(repos, LAMBDA r : ~Matches(r))

\* per surviving repository, the sum of its counted edges
CountedSizes(repos) ==
    [k \in 1..Len(Surviving(repos)) |->
        [size |-> SumOf(CountedEdges(Surviving(repos)[k]), "size")]]

\* C1: when the loop has ended, the sizes in the aggregate add up to the sum,
\* over the edges of the input whose repository matches no exclusion pattern
\* and whose lower-cased language is not excluded, of the edge's size.
C1_AggregateIsSumOfCountedEdges ==
    LoopDone =>
        SumOf(language_stats, "size") = SumOf(CountedSizes(repositories), "size")

\* both filters bite and something is left: a repository is excluded, a
\* surviving one has an excluded edge, and the aggregate is not zero
C1_Witness ==
    /\ LoopDone
    /\ SumOf(language_stats, "size") > 0
    /\ \E k \in 1..Len(repositories) : Matches(repositories[k])
    /\ \E k \in 1..Len(repositories) :
          /\ ~Matches(repositories[k])
          /\ Len(CountedEdges(repositories[k])) < Len(repositories[k].languages.edges)

\* the aggregate of a list of edges, then of a list of repositories, none skipped
RECURSIVE FoldEdges(_, _)
FoldEdges(stats, edges) ==
    IF edges = <<>> THEN stats
    ELSE FoldEdges(FoldEdge(stats, Head(edges)), Tail(edges))

RECURSIVE FoldRepos(_, _)
FoldRepos(stats, repos) ==
    IF repos = <<>> THEN stats
    ELSE FoldRepos(FoldEdges(stats, CountedEdges(Head(repos))), Tail(repos))

\* C2: a repository whose name matches an excluded-repository pattern
\* contributes nothing: before each repository is visited the aggregate
\* (sizes and colours) is what the surviving repositories visited so far give
\* on their own, and no processed entry carries a matching name.
C2_ExcludedRepositoryContributesNothing ==
    /\ \A k \in 1..Len(processed_repos) : ~Matches(processed_repos[k])
    /\ pc = "repos" =>
          language_stats = FoldRepos(<<>>, Surviving(SubSeq(repositories, 1, repo_i - 1)))

\* a repository excluded by a wildcard has an edge of a counted language with
\* a size, and the aggregate holds that language with another colour
C2_Witness ==
    /\ LoopDone
    /\ \E k \in 1..Len(repositories) :
          /\ Matches(repositories[k])
          /\ repositories[k].name \notin excluded_repositories
          /\ \E e \in Range(CountedEdges(repositories[k])) :
                /\ e.size > 0
                /\ \E l \in Range(language_stats) :
                      l.name = e.node.name /\ l.color # e.node.color

\* C3: the size of a processed repository is the sum of the sizes of all its
\* language edges, those of excluded languages included.
C3_RepositorySizeCountsAllEdges ==
    \A k \in 1..Len(processed_repos) :
        \E i \in 1..Len(repositories) :
            /\ repositories[i].name = processed_repos[k].name
            /\ processed_repos[k].size = SumOf(repositories[i].languages.edges, "size")

\* a processed repository has an edge of an excluded language, so its size is
\* more than what it gave the aggregate
C3_Witness ==
    /\ LoopDone
    /\ Len(repositories) = 1
    /\ Len(processed_repos) = 1
    /\ Len(CountedEdges(repositories[1])) < Len(repositories[1].languages.edges)
    /\ processed_repos[1].size > SumOf(language_stats, "size")
    /\ SumOf(language_stats, "size") > 0

(***************************************************************************)
(* Properties of the activity ranking (create_bar_chart and                *)
(* create_enhanced_bar_chart).                                             *)
(***************************************************************************)
RankingCalled == called \in {"create_bar_chart", "create_enhanced_bar_chart"}

\* how many repositories the chart called shows at most
RankingTop == IF called = "create_bar_chart" THEN BarTop ELSE EnhancedBarTop

\* the position in the input of the repository of the k-th row shown
Shown(k) == CHOOSE i \in 1..Len(input) : input[i].name = output.text[k].name

NotShown == (1..Len(input)) \ { Shown(k) : k \in 1..Len(output.text) }

\* input[a] comes before input[b] by commit count descending, the earlier of
\* the input first among equal counts
RanksBefore(a, b) ==
    \/ input[a].commit_count > input[b].commit_count
    \/ input[a].commit_count = input[b].commit_count /\ a < b

NothingToRank == input = <<>> \/ \A i \in 1..Len(input) : input[i].commit_count = 0

MaxCommitCount ==
    CHOOSE m \in { input[i].commit_count : i \in 1..Len(input) } :
        \A i \in 1..Len(input) : input[i].commit_count <= m

\* the dots of a row drawn with opacity 1.0
LitDots(row) == Cardinality({ j \in 1..Len(row.dots) : row.dots[j] = "1.0" })

\* every bar is (commit_count / max_commits) * max_width long: its length
\* times max_commits is commit_count times max_width (85 at the call site)
BarLengthIsProportional ==
    called = "create_bar_chart" =>
        \A k \in 1..Len(output.text) :
            FMul(output.text[k].bar_width, FInt(MaxCommitCount))
                = FInt(output.text[k].commit_count * 85)

\* every row has (commit_count / max_commits) * 20 lit dots
LitDotsAreProportional ==
    called = "create_enhanced_bar_chart" =>
        \A k \in 1..Len(output.text) :
            LitDots(output.text[k]) * MaxCommitCount
                = input[Shown(k)].commit_count * DotCount

\* C5: the bar of each repository shown is exactly (commit_count /
\* max_commit_count) * max_width long, and in the dot-matrix variant the
\* number of lit dots out of 20 is exactly (commit_count / max_commit_count)
\* * 20: counts 40 and 10 give 20 and 5 lit dots.
C5_LengthIsProportional == BarLengthIsProportional /\ LitDotsAreProportional

\* the dot-matrix chart of counts 40 and 10 lights 20 and 6 dots
C5_SixDotsForAQuarter ==
    /\ called = "create_enhanced_bar_chart"
    /\ Len(input) = 2
    /\ input[1].commit_count = 40
    /\ input[2].commit_count = 10
    /\ LitDots(output.text[1]) = 20
    /\ LitDots(output.text[2]) = 6

(***************************************************************************)
(* Properties of the language renderers (the pie charts and the legends).  *)
(***************************************************************************)
PieCalled == called \in {"create_pie_chart", "create_enhanced_pie_chart"}

\* 2 * math.pi
TwoPi == FMul(FInt(2), MathPi)

\* the slices follow one another from angle 0, one per language, each ending
\* at its start plus its angle; a larger language has a larger angle, equal
\* sizes have equal angles and size 0 has angle 0
SlicesAreConsecutive ==
    /\ Len(output.text) = Len(input)
    /\ output.text[1].start_angle = FZero
    /\ \A k \in 2..Len(output.text) :
          output.text[k].start_angle = output.text[k - 1].end_angle
    /\ \A k \in 1..Len(output.text) :
          /\ output.text[k].end_angle
                = FAdd(output.text[k].start_angle, output.text[k].angle)
          /\ input[k].size = 0 <=> output.text[k].angle = FZero
          /\ \A j \in 1..Len(output.text) :
                /\ input[j].size = input[k].size
                      => output.text[j].angle = output.text[k].angle
                /\ input[j].size < input[k].size
                      => FLess(output.text[j].angle, output.text[k].angle)

LastEndAngle == output.text[Len(output.text)].end_angle

\* x is within n units in the last place of 2 * math.pi
NearTwoPi(x, n) ==
    /\ x.e = TwoPi.e
    /\ ~BLess(BAdd(TwoPi.m, BFromInt(n)), x.m)
    /\ ~BLess(BAdd(x.m, BFromInt(n)), TwoPi.m)

\* C6 as stated: the slices are consecutive from angle 0, each angle is
\* proportional to size / total, and the last slice ends at exactly 2 * pi;
\* a total of 0 gives the empty fragment.
C6_SlicesEndAtExactlyTwoPi ==
    PieCalled =>
        /\ output.raises = "none"
        /\ IF SumOf(input, "size") = 0 THEN output.text = <<>>
           ELSE SlicesAreConsecutive /\ LastEndAngle = TwoPi

\* C6: the slices are consecutive from angle 0, each angle is proportional to
\* size / total, and the last of n slices ends within n + 1 units in the last
\* place of 2 * pi (the angles are sums of rounded doubles); a total of 0
\* gives the empty fragment.
C6_SlicesEndNearTwoPi ==
    PieCalled =>
        /\ output.raises = "none"
        /\ IF SumOf(input, "size") = 0 THEN output.text = <<>>
           ELSE SlicesAreConsecutive /\ NearTwoPi(LastEndAngle, Len(input) + 1)

\* a pie of three slices or more whose last end angle is not 2 * pi
C6_Witness ==
    /\ called = "create_pie_chart"
    /\ Len(output.text) >= 3
    /\ \A k \in 1..Len(input) : input[k].size > 0
    /\ LastEndAngle # TwoPi
    /\ NearTwoPi(LastEndAngle, Len(input) + 1)

\* C7: every renderer returns the empty fragment rather than raising when its
\* input list is empty or its normalising denominator (the total size) is 0,
\* create_legend with a non-empty list of all-zero sizes included.
C7_EmptyFragmentWhenNothingToDraw ==
    (called # "none" /\ SumOf(input, "size") = 0) =>
        output.raises = "none" /\ output.text = <<>>

\* create_legend called with languages that all have size 0 raises
C7_LegendDividesByZero ==
    /\ called = "create_legend"
    /\ input # <<>>
    /\ \A k \in 1..Len(input) : input[k].size = 0
    /\ output.raises = "ZeroDivisionError"

(***************************************************************************)
(* Properties of the pipeline (generate_stats and the handler hello).      *)
(***************************************************************************)
\* the request to GitHub was made and did not give the nodes: an exception,
\* a status other than 200, or a payload with "errors"
FetchFailed ==
    /\ http # None
    /\ http.raises # "none" \/ http.status_code # 200 \/ http.errors

\* C8: when the fetch fails, generate_stats returns a result with success
\* False and an error message and without an svg field, and create_svg is
\* not entered.
C8_FetchFailureGivesErrorResult ==
    FetchFailed =>
        /\ pc \in {"generated", "returned"}
        /\ DOMAIN result = {"success", "error"}
        /\ result.success = FALSE
        /\ "create_svg" \notin Range(calls)

\* GitHub answered 200 with "errors" in the payload and hello has returned 500
C8_Witness ==
    /\ FetchFailed
    /\ http.status_code = 200
    /\ http.errors
    /\ pc = "returned"
    /\ response.statusCode = 500
    /\ remote # <<>>

\* the functions of one invocation, in the order hello reaches them
StageOrder ==
    <<"hello", "generate_stats", "get_github_data", "create_svg", "upload_to_s3">>

Succeeded(outcome) == outcome # None /\ outcome.success

\* C9: the handler runs fetch, render and publish in that order and stops at
\* the first failure: publish is entered only after a successful generation,
\* the answer is 200 only when generation and upload both succeeded (and has
\* the URL then), and every other answer carries an error and nothing else.
C9_StagesInOrderAndShortCircuit ==
    /\ calls = SubSeq(StageOrder, 1, Len(calls))
    /\ "upload_to_s3" \in Range(calls) => Succeeded(result)
    /\ upload_result # None => "upload_to_s3" \in Range(calls)
    /\ pc = "returned" =>
          /\ response.statusCode = 200 <=> (Succeeded(result) /\ Succeeded(upload_result))
          /\ response.statusCode = 200 =>
                /\ "s3_url" \in DOMAIN response.body
                /\ "error" \notin DOMAIN response.body
          /\ response.statusCode # 200 => DOMAIN response.body = {"error"}
          /\ ~Succeeded(result) =>
                "upload_to_s3" \notin Range(calls) /\ upload_result = None

\* all three stages ran and the upload failed: 500 with neither document nor URL
C9_Witness ==
    /\ pc = "returned"
    /\ calls = StageOrder
    /\ Succeeded(result)
    /\ upload_result # None
    /\ ~upload_result.success
    /\ response.statusCode = 500

\* the document without its `Generated at` line
Untimed(doc) == [doc EXCEPT !.generated_at = 0]

\* C10: two runs over the same repositories and the same configuration give
\* documents that are the same but for the `Generated at` time.
C10_DocumentsDifferOnlyInTimestamp ==
    \A j, k \in 1..Len(documents) : Untimed(documents[j]) = Untimed(documents[k])

\* two documents with a pie, a legend and bars, made in different minutes
C10_Witness ==
    /\ Len(documents) = 2
    /\ documents[1].generated_at # documents[2].generated_at
    /\ documents[2].pie # <<>>
    /\ documents[2].legend # <<>>
    /\ documents[2].bars # <<>>

(***************************************************************************)
(* Properties of the configuration and the two filters.                    *)
(***************************************************************************)
\* config.json is missing, is not JSON, or lacks one of the two lists
Malformed ==
    \/ config_file.kind # "json"
    \/ "excluded_languages" \notin DOMAIN config_file.json
    \/ "excluded_repositories" \notin DOMAIN config_file.json

\* this invocation is past create_svg's reading of the configuration
ConfigRead == "create_svg" \in Range(calls) /\ pc # "create_svg"

\* generate_stats has returned in this invocation
Generated == pc \in {"generated", "upload_to_s3", "uploaded", "returned"}

\* with config.json missing or not JSON, create_svg goes on with the defaults
UnreadableConfigFallsBack ==
    (config_file.kind # "json" /\ ConfigRead) =>
        /\ excluded_languages = Range(DefaultConfig.excluded_languages)
        /\ excluded_repositories = Range(DefaultConfig.excluded_repositories)
        /\ Generated => (result.success \/ result.error = "ZeroDivisionError")

\* C11: a malformed config.json (missing, not JSON, or JSON lacking one of the
\* two lists) is never a hard failure: create_svg goes on with the default
\* exclusion sets and generate_stats returns success (but for a failure of
\* the renderers themselves).
C11_MalformedConfigFallsBack ==
    (Malformed /\ ConfigRead) =>
        /\ excluded_languages = Range(DefaultConfig.excluded_languages)
        /\ excluded_repositories = Range(DefaultConfig.excluded_repositories)
        /\ Generated => (result.success \/ result.error = "ZeroDivisionError")

\* config.json is JSON without excluded_repositories: generate_stats has
\* failed with the KeyError and hello has answered 500
C11_KeyErrorOnMissingList ==
    /\ config_file.kind = "json"
    /\ "excluded_languages" \in DOMAIN config_file.json
    /\ pc = "returned"
    /\ result # None
    /\ ~result.success
    /\ result.error = "KeyError: 'excluded_repositories'"
    /\ response.statusCode = 500

\* some configured name is the language's name but for the case of letters
ExcludedAnyCasing(lang_name) ==
    \E configured \in excluded_languages : Lower(configured) = Lower(lang_name)

\* the edges of the repository whose language no configured name excludes
KeptAnyCasing(repo) ==
    SelectSeq(repo.languages.edges, LAMBDA e : ~ExcludedAnyCasing(e.node.name))

RECURSIVE FoldKept(_, _)
FoldKept(stats, repos) ==
    IF repos = <<>> THEN stats
    ELSE FoldKept(FoldEdges(stats, KeptAnyCasing(Head(repos))), Tail(repos))

\* the aggregate is that of the edges no configured name excludes
AggregateSkipsEveryCasing ==
    pc = "repos" =>
        language_stats = FoldKept(<<>>, Surviving(SubSeq(repositories, 1, repo_i - 1)))

\* with the configured names all in lower case, each excludes every casing
\* of its language and nothing else
LowerCaseNameExcludesEveryCasing ==
    (\A configured \in excluded_languages : Lower(configured) = configured)
        => AggregateSkipsEveryCasing

\* C12: language exclusion is a case-insensitive exact match: a configured
\* excluded name keeps every casing of that language (HTML and html alike),
\* and no other language, out of the aggregate.
C12_ConfiguredNameExcludesEveryCasing == AggregateSkipsEveryCasing

\* HTML is configured as excluded, and the aggregate counts the HTML edge
C12_UpperCaseNameExcludesNothing ==
    /\ LoopDone
    /\ Html \in excluded_languages
    /\ \E l \in Range(language_stats) : l.name = Html /\ l.size > 0

FilterCalled == called = "any(fnmatch.fnmatch)"

\* a pattern read as a list of tokens: "star", "any", "class" (the text
\* pat[from..to-1] between the brackets) or "lit" (the character pat[from])
Token(kind, from, to) == [kind |-> kind, from |-> from, to |-> to]

\* every character but `*` stands for itself
StarOnlyTokens(pat) ==
    [j \in 1..Len(pat) |-> Token(IF pat[j] = "*" THEN "star" ELSE "lit", j, j)]

\* `*`, `?` and a closed `[...]` are special, every other character (a `[`
\* that no `]` closes too) stands for itself
RECURSIVE GlobTokens(_, _)
GlobTokens(pat, j) ==
    IF j > Len(pat) THEN <<>>
    ELSE IF pat[j] = "*" THEN <<Token("star", j, j)>> \o GlobTokens(pat, j + 1)
    ELSE IF pat[j] = "?" THEN <<Token("any", j, j)>> \o GlobTokens(pat, j + 1)
    ELSE IF pat[j] = "[" /\ ClassEnd(pat, j + 1) # 0
    THEN <<Token("class", j + 1, ClassEnd(pat, j + 1))>>
           \o GlobTokens(pat, ClassEnd(pat, j + 1) + 1)
    ELSE <<Token("lit", j, j)>> \o GlobTokens(pat, j + 1)

\* the token takes the one character c
TokenTakes(pat, token, c) ==
    \/ token.kind = "any"
    \/ token.kind = "class" /\ ClassAccepts(pat, token.from, token.to, c)
    \/ token.kind = "lit" /\ pat[token.from] = c

\* the lengths of the prefixes of name that the tokens can take, given those
\* the tokens before could take: a star takes any run of characters
TakenNext(name, pat, token, before) ==
    IF token.kind = "star"
    THEN { q \in 0..Len(name) : \E l \in before : l <= q }
    ELSE { l + 1 : l \in { q \in before : q < Len(name)
                                           /\ TokenTakes(pat, token, name[q + 1]) } }

RECURSIVE Taken(_, _, _, _)
Taken(name, pat, tokens, k) ==
    IF k = 0 THEN {0}
    ELSE TakenNext(name, pat, tokens[k], Taken(name, pat, tokens, k - 1))

\* the tokens take the whole name
Takes(name, pat, tokens) == Len(name) \in Taken(name, pat, tokens, Len(tokens))

\* C13 as stated: a name is excluded iff it matches at least one pattern,
\* where `*` matches any run of characters and every other character of the
\* pattern (`?`, `[` and `]` too) only itself, case-sensitively; no pattern
\* excludes nothing.
C13_OnlyStarIsSpecial ==
    FilterCalled =>
        (output <=> \E pat \in input.patterns :
                        Takes(input.name, pat, StarOnlyTokens(pat)))

\* C13: a name is excluded iff it matches at least one pattern, where `*`
\* matches any run of characters, `?` any one character, `[seq]` one
\* character of seq and `[!seq]` one not in seq, and every other character
\* (a `[` that no `]` closes too) only itself, case-sensitively; no pattern
\* excludes nothing.
C13_ShellGlobMatch ==
    FilterCalled =>
        /\ output <=> \E pat \in input.patterns :
                          Takes(input.name, pat, GlobTokens(pat, 1))
        /\ input.patterns = {} => ~output

\* a name is excluded by a pattern whose `?` or class is not in the name
C13_Witness ==
    /\ FilterCalled
    /\ output
    /\ \E pat \in input.patterns :
          /\ \E j \in 1..Len(GlobTokens(pat, 1)) :
                GlobTokens(pat, 1)[j].kind \in {"any", "class"}
          /\ Takes(input.name, pat, GlobTokens(pat, 1))
    /\ \A pat \in input.patterns : ~Takes(input.name, pat, StarOnlyTokens(pat))

\* the counted edges of the surviving repositories, repository by repository
RECURSIVE CountedEdgesOf(_)
CountedEdgesOf(repos) ==
    IF repos = <<>> THEN <<>>
    ELSE CountedEdges(Head(repos)) \o CountedEdgesOf(Tail(repos))

AllCountedEdges == CountedEdgesOf(Surviving(repositories))

\* the last of the edges that is of the language
LastEdgeOf(edges, lang_name) ==
    edges[CHOOSE k \in 1..Len(edges) :
            /\ edges[k].node.name = lang_name
            /\ \A j \in (k + 1)..Len(edges) : edges[j].node.name # lang_name]

\* C14: when the loop has ended, the colour of every language of the
\* aggregate is the colour of the last counted edge of that language, going
\* through the surviving repositories in input order and through each one's
\* edges in input order, whatever the sizes of the edges.
C14_LastColorWins ==
    LoopDone =>
        \A k \in 1..Len(language_stats) :
            /\ \E e \in Range(AllCountedEdges) : e.node.name = language_stats[k].name
            /\ language_stats[k].color
                  = LastEdgeOf(AllCountedEdges, language_stats[k].name).node.color

\* a language has a large edge of one colour and, later, a smaller edge of
\* another colour: the aggregate has the later colour
C14_Witness ==
    /\ LoopDone
    /\ \E i, j \in 1..Len(AllCountedEdges) :
          /\ i < j
          /\ AllCountedEdges[i].node.name = AllCountedEdges[j].node.name
          /\ AllCountedEdges[i].node.color # AllCountedEdges[j].node.color
          /\ AllCountedEdges[i].size > AllCountedEdges[j].size
          /\ \E l \in Range(language_stats) :
                /\ l.name = AllCountedEdges[j].node.name
                /\ l.color = AllCountedEdges[j].node.color

\* the float x is size / total * 100 to within a hundredth of 1 / total
IsPercentage(x, size, total) ==
    IF size = 0 THEN x = FZero
    ELSE /\ FLess(FDivInt(10000 * size - 1, 100 * total), x)
         /\ FLess(x, FDivInt(10000 * size + 1, 100 * total))

\* the colours of the elements of a fragment, in order
FillsOf(elements) == [k \in 1..Len(elements) |-> elements[k].fill]

\* C15: the legend lists the first 10 languages of the size-descending list
\* (all of them when there are fewer), in the order of the pie's slices; the
\* percentage of each is its size over the total size of all the languages,
\* listed or not, times 100, and its kilobyte figure is size / 1024.
C15_LegendListsTopTenOverWholeTotal ==
    (called = "create_legend" /\ SumOf(input, "size") > 0) =>
        /\ output.raises = "none"
        /\ Len(output.text) = IF Len(input) < 10 THEN Len(input) ELSE 10
        /\ FillsOf(output.text)
              = Take(FillsOf(create_pie_chart(input, 140, 270, 70).text), 10)
        /\ \A k \in 1..Len(output.text) :
              /\ output.text[k].name = input[k].name
              /\ k > 1 => input[k - 1].size >= input[k].size
              /\ IsPercentage(output.text[k].percentage, input[k].size,
                              SumOf(input, "size"))
              /\ FMul(output.text[k].size_kb, FInt(1024)) = FInt(input[k].size)

\* eleven languages, the one not listed with a size: the listed percentages
\* are of the total of the eleven
C15_Witness ==
    /\ called = "create_legend"
    /\ Len(input) = 11
    /\ input[11].size > 0
    /\ Len(output.text) = 10
    /\ input[1].size > input[10].size
    /\ ~IsPercentage(output.text[1].percentage, input[1].size,
                      SumOf(input, "size") - input[11].size)

\* what generate_stats and upload_to_s3 return: success with the payload, or
\* failure with a message
IsStageResult(outcome, payload) ==
    /\ "success" \in DOMAIN outcome
    /\ IF outcome.success
       THEN payload \in DOMAIN outcome /\ "error" \notin DOMAIN outcome
       ELSE DOMAIN outcome = {"success", "error"} /\ outcome.error # ""

\* what hello returns: a status code, and a message or an error
IsResponse(answer) ==
    /\ DOMAIN answer = {"statusCode", "headers", "body"}
    /\ answer.statusCode \in {200, 400, 500}
    /\ IF answer.statusCode = 200
       THEN "message" \in DOMAIN answer.body /\ "error" \notin DOMAIN answer.body
       ELSE DOMAIN answer.body = {"error"}

\* hello finds the keys it reads next in what the stages returned (no KeyError)
HelloCanRead ==
    /\ pc = "generated" =>
          /\ "success" \in DOMAIN result
          /\ ~result.success => "error" \in DOMAIN result
    /\ pc = "upload_to_s3" => "svg" \in DOMAIN result
    /\ pc = "uploaded" =>
          /\ "success" \in DOMAIN upload_result
          /\ IF upload_result.success
             THEN {"url", "uploaded_at"} \subseteq DOMAIN upload_result
             ELSE "error" \in DOMAIN upload_result

\* C16: whatever the fetch, the rendering and the upload do, exceptions
\* included, generate_stats and upload_to_s3 return a result that tells
\* success from failure with a message, hello returns a response with a
\* status code and a message or an error, and hello finds in the results the
\* keys it reads.
C16_EveryOutcomeIsStructured ==
    /\ Generated /\ "generate_stats" \in Range(calls) => IsStageResult(result, "svg")
    /\ ~Generated \/ "generate_stats" \notin Range(calls) => result = None
    /\ pc \in {"uploaded", "returned"} /\ "upload_to_s3" \in Range(calls)
          => IsStageResult(upload_result, "url")
    /\ pc = "returned" => IsResponse(response)
    /\ HelloCanRead

\* a renderer raised inside create_svg and hello has answered 500
C16_Witness ==
    /\ pc = "returned"
    /\ http # None
    /\ ~FetchFailed
    /\ ~Malformed
    /\ result # None
    /\ ~result.success
    /\ result.error = "ZeroDivisionError"
    /\ IsResponse(response)
    /\ response.statusCode = 500

\* create_svg is in its loop over the repositories and their edges
Folding == pc \in {"repos", "edges"}

\* C17: from one step of the loop to the next, every language of the
\* aggregate is still in it, at the same place, with a size that is not
\* smaller (the edge sizes are not negative).
C17_SizesNeverDecrease ==
    [][ (Folding /\ Folding') =>
            /\ Len(language_stats') >= Len(language_stats)
            /\ \A k \in 1..Len(language_stats) :
                  /\ language_stats'[k].name = language_stats[k].name
                  /\ language_stats'[k].size >= language_stats[k].size ]_vars

\* the edge just folded was added to what the language had from an earlier
\* repository: its entry is larger than the edge
C17_Witness ==
    /\ pc = "edges"
    /\ edge_j > 1
    /\ \E l \in Range(language_stats) :
          /\ l.name = repositories[repo_i].languages.edges[edge_j - 1].node.name
          /\ repositories[repo_i].languages.edges[edge_j - 1].size > 0
          /\ l.size > repositories[repo_i].languages.edges[edge_j - 1].size

\* the names of the elements of a list, in order
NamesOf(xs) == [k \in 1..Len(xs) |-> xs[k].name]

\* C18: when the loop has ended, the processed repositories are the input
\* repositories that match no pattern, in input order and once each, and
\* the languages (in the aggregate and in the sorted list made of it) are,
\* once each, the names, told apart by case, of the counted edges of those
\* repositories.
C18_OutputsAreTheSurvivors ==
    LoopDone =>
        /\ NamesOf(processed_repos) = NamesOf(Surviving(repositories))
        /\ Range(NamesOf(language_stats))
              = { e.node.name : e \in Range(AllCountedEdges) }
        /\ \A j, k \in 1..Len(language_stats) :
              language_stats[j].name = language_stats[k].name => j = k
        /\ Len(Languages(language_stats)) = Len(language_stats)
        /\ Range(Languages(language_stats)) = Range(language_stats)

\* the first of two repositories is excluded and the second, which has an
\* edge of an excluded language and a counted one, is the one processed
C18_Witness ==
    /\ LoopDone
    /\ Len(repositories) = 2
    /\ Matches(repositories[1])
    /\ NamesOf(processed_repos) = <<repositories[2].name>>
    /\ language_stats # <<>>
    /\ Len(language_stats) < Len(repositories[2].languages.edges)

\* the slices of the pie that carry the large-arc flag
LargeSlices == { k \in 1..Len(output.text) : output.text[k].large_arc = "1" }

\* C19: a slice carries large-arc flag 1 iff its angle is greater than pi,
\* which is iff twice its size is more than the total; so at most one slice
\* of a pie is flagged, and a slice of exactly half the total is flagged 0.
C19_LargeArcIffMoreThanHalf ==
    (PieCalled /\ SumOf(input, "size") > 0) =>
        /\ Len(output.text) = Len(input)
        /\ \A k \in 1..Len(output.text) :
              /\ output.text[k].large_arc \in {"0", "1"}
              /\ k \in LargeSlices <=> FLess(MathPi, output.text[k].angle)
              /\ k \in LargeSlices <=> 2 * input[k].size > SumOf(input, "size")
              /\ 2 * input[k].size = SumOf(input, "size") =>
                    output.text[k].angle = MathPi /\ k \notin LargeSlices
        /\ Cardinality(LargeSlices) <= 1

\* a pie of several slices, one of them just over half the total and flagged
C19_Witness ==
    /\ called = "create_pie_chart"
    /\ Len(input) >= 3
    /\ 2 * input[1].size = SumOf(input, "size") + 1
    /\ LargeSlices = {1}

\* a pie with a slice of exactly half the total, which is not flagged
HalfSliceIsNotLarge ==
    /\ called = "create_pie_chart"
    /\ Len(input) >= 3
    /\ 2 * input[1].size = SumOf(input, "size")
    /\ LargeSlices = {}

\* C20: the activity ranking returns the empty string iff the list is empty
\* or the highest commit count is 0; when it has rows, the count that
\* normalises them, that of the first row and the highest of the input, is
\* above 0, and nothing is raised.
C20_EmptyIffNothingToRank ==
    RankingCalled =>
        /\ output.raises = "none"
        /\ output.text = <<>> <=> NothingToRank
        /\ output.text # <<>> =>
              /\ input[Shown(1)].commit_count = MaxCommitCount
              /\ MaxCommitCount > 0

\* create_bar_chart on repositories that all have 0 commits returns ""
C20_Witness ==
    /\ called = "create_bar_chart"
    /\ Len(input) >= 2
    /\ \A i \in 1..Len(input) : input[i].commit_count = 0
    /\ output = Returns(<<>>)

\* the bar a repository with the given commit count gets when the count that
\* normalises it is the highest of the whole input
BarAgainstWholeInput(commit_count) ==
    FMul(FDivInt(commit_count, MaxCommitCount), FInt(85))

\* C21: in create_bar_chart the count that normalises the rows shown, that
\* of the first row, is the highest commit count of the whole list given, so
\* every bar shown is as long as it would be without the cut to the top 10;
\* every bar is at least 0 and at most max_width (85) long and the first bar
\* is max_width long. In the dot-matrix chart likewise every row lights as
\* many dots as against the highest count of the whole list, the first row
\* all 20.
C21_TruncationKeepsNormalizingMax ==
    /\ called = "create_bar_chart" /\ output.text # <<>> =>
          /\ output.text[1].commit_count = MaxCommitCount
          /\ output.text[1].bar_width = FInt(85)
          /\ \A k \in 1..Len(output.text) :
                /\ output.text[k].bar_width
                      = BarAgainstWholeInput(input[Shown(k)].commit_count)
                /\ FLeq(FZero, output.text[k].bar_width)
                /\ FLeq(output.text[k].bar_width, FInt(85))
    /\ called = "create_enhanced_bar_chart" /\ output.text # <<>> =>
          /\ input[Shown(1)].commit_count = MaxCommitCount
          /\ LitDots(output.text[1]) = DotCount
          /\ \A k \in 1..Len(output.text) :
                output.text[k].dots
                    = Dots(FDivInt(input[Shown(k)].commit_count, MaxCommitCount))

\* create_bar_chart on eleven repositories, the last of them with the
\* highest count: one is left out, the first bar is 85 long and some bar is
\* strictly between 0 and 85
C21_Witness ==
    /\ called = "create_bar_chart"
    /\ Len(input) > BarTop
    /\ Len(output.text) = BarTop
    /\ NotShown # {}
    /\ input[Len(input)].commit_count = MaxCommitCount
    /\ input[1].commit_count < MaxCommitCount
    /\ output.text[1].bar_width = FInt(85)
    /\ \E k \in 1..Len(output.text) :
          /\ FLess(FZero, output.text[k].bar_width)
          /\ FLess(output.text[k].bar_width, FInt(85))

(***************************************************************************)
(* The two revisions of the aggregation compared.                          *)
(***************************************************************************)
\* both revisions have aggregated the repositories of input
BothAggregated ==
    /\ called = "github_stats.create_svg"
    /\ LoopDone \/ pc = "generated"

\* some repository of input has a name a default pattern matches
SomeExcludedByName ==
    \E i \in 1..Len(input) :
        IsExcludedRepository(input[i].name, Range(DefaultConfig.excluded_repositories))

\* name, commit_count and size of the processed repositories, in order
Summary(repos) ==
    [i \in 1..Len(repos) |->
        [ name         |-> repos[i].name,
          commit_count |-> repos[i].commit_count,
          size         |-> repos[i].size ]]

\* C22: run on the same repositories, github_stats.py create_svg and
\* generate.py create_svg under the default configuration end with the same
\* language list (names, sizes, colours, order) and the same processed
\* repositories (name, commit_count, size, order) whenever no repository
\* name matches a default excluded-repository pattern; so they differ only
\* when some repository is excluded by name.
C22_RevisionsAgreeUnlessExcludedByName ==
    BothAggregated /\ ~SomeExcludedByName =>
        /\ Languages(language_stats) = output.languages
        /\ Summary(processed_repos) = output.processed_repos

\* two repositories, none excluded by name, that share a language with two
\* colours and have an excluded language: both revisions list the same
\* languages, more than one, and both repositories
C22_Witness ==
    /\ BothAggregated
    /\ ~SomeExcludedByName
    /\ Len(input) = 2
    /\ Len(output.processed_repos) = 2
    /\ Len(processed_repos) = 2
    /\ Len(output.languages) >= 2
    /\ Languages(language_stats) = output.languages
    /\ \E e \in Range(input[1].languages.edges) :
          \E f \in Range(input[2].languages.edges) :
              e.node.name = f.node.name /\ e.node.color # f.node.color
    /\ \E e \in Range(input[1].languages.edges) :
          Lower(e.node.name) \in LegacyExcludedLanguages

\* with a repository excluded by name the revisions do differ: the earlier
\* one lists it among the processed repositories
RevisionsDifferWhenExcludedByName ==
    /\ BothAggregated
    /\ SomeExcludedByName
    /\ Summary(processed_repos) # output.processed_repos

====
